---- MODULE Spec2Model ----
(***************************************************************************)
(* Model of trackable-request-handler: the RequestHandler class (req,      *)
(* reqOnce, _handleRequest, _getAPI, the finders), the default actions and *)
(* the default requests reducer, run on a single-threaded event loop with  *)
(* a microtask queue for promise reactions, a timer for the offline delay  *)
(* and a Redux store that applies dispatched actions synchronously.        *)
(***************************************************************************)
EXTENDS Integers, Sequences, FiniteSets, TLC

\* ------------------------------------------------------------------ bounds
\* Number of thunk invocations in one run.
MaxCalls == 2
\* Number of thunk invocations in one run of requests to a single path.
MaxPathCalls == 3

\* ------------------------------------------------------------ JS values
\* A JavaScript value: its typeof tag t, a numeric part n, a textual part s.
JSUndefined == [t |-> "undefined", n |-> 0, s |-> ""]
JSBool(b) == [t |-> "boolean", n |-> IF b THEN 1 ELSE 0, s |-> ""]
JSNum(k) == [t |-> "number", n |-> k, s |-> ""]
JSNaN == [t |-> "number", n |-> 0, s |-> "NaN"]
JSStr(str) == [t |-> "string", n |-> 0, s |-> str]
JSNull == [t |-> "object", n |-> 0, s |-> "null"]
JSObject == [t |-> "object", n |-> 0, s |-> "{}"]
\* The completion of a call that throws ReferenceError: `ident` is not defined.
ReferenceError(ident) == [t |-> "ReferenceError", n |-> 0, s |-> ident]
\* new Date().toISOString() at clock value k: a non-empty string that is
\* determined by the clock.
ISOString(k) == [t |-> "string", n |-> k, s |-> "ISO"]

\* ToBoolean, as applied by ||, &&, !, if and Array.prototype.some.
Truthy(v) ==
  CASE v.t = "undefined" -> FALSE
    [] v = JSNull -> FALSE
    [] v.t = "boolean" -> v.n = 1
    [] v.t = "number" -> v.s # "NaN" /\ v.n # 0
    [] v.t = "string" -> v.s # ""
    [] OTHER -> TRUE

\* Number(str) on the strings the configuration is drawn from.
NumberOfString(str) ==
  CASE str = "" -> JSNum(0)
    [] str = "0" -> JSNum(0)
    [] str = "1" -> JSNum(1)
    [] str = "2" -> JSNum(2)
    [] str = "5" -> JSNum(5)
    [] OTHER -> JSNaN

\* A response, an error or a resolution value: what it is and its argument.
Val(msg, arg) == [msg |-> msg, arg |-> arg]
NoVal == Val("", "")
EmptyResult == Val("{}", "")
Responses == {Val("response", "R1"), Val("response", "R2")}
TransportErrors == {Val("TransportError", "E1")}
OnSuccessException == Val("exception", "onSuccess")
OnFailureException == Val("exception", "onFailure")

\* ------------------------------------------------------------- the inputs
Undefined == "undefined"

\* The apis object handed to the constructor: each name maps to the object
\* its api function returns (path(), offlineResponse, onSuccess, onFailure;
\* TRUE where the function is defined).
apis ==
  [getA |-> [path |-> [path |-> "/a", method |-> "GET"],
             offlineResponse |-> TRUE, onSuccess |-> TRUE, onFailure |-> TRUE],
   postA |-> [path |-> [path |-> "/a", method |-> "POST"],
              offlineResponse |-> TRUE, onSuccess |-> FALSE, onFailure |-> FALSE],
   getB |-> [path |-> [path |-> "/b", method |-> Undefined],
             offlineResponse |-> FALSE, onSuccess |-> TRUE, onFailure |-> FALSE]]

\* The names thunks are created with: the registered ones and one that is not.
ApiNames == DOMAIN apis \cup {"nope"}

\* offlineDelayTime arguments the handler is constructed with.
OfflineArgs == {JSBool(FALSE), JSStr("true"), JSNum(1)}

\* Every kind of offlineDelayTime argument: booleans, their spellings,
\* numeric and other strings, numbers, null, undefined and an object.
RawOfflineArgs ==
  {JSBool(FALSE), JSBool(TRUE), JSStr("true"), JSStr("false"), JSStr("5"),
   JSStr("abc"), JSStr(""), JSNum(0), JSNum(2), JSNum(-1), JSNull,
   JSUndefined, JSObject}

\* The default of the constructor's requestHistoryStateKey parameter.
DefaultStateKey == "requests"

\* requestHistoryStateKey arguments: the default and another key.
StateKeys == {DefaultStateKey, "history"}

\* The default actions the repository holds: the file src/actions.js, which
\* the handler's import of './actions' finds, and the copy of it kept in
\* RequestHandler.js.
ActionsFile == "src/actions.js"
ActionsCopy == "RequestHandler.js:378"
ActionSets == {ActionsFile, ActionsCopy}

\* The finders an object passed as the constructor's finders can define.
FinderNames == {"findRequest", "findSuccess", "findFailure"}

VARIABLES
  actions,                 \* the constructor's actions argument
  finders,                 \* the finders the constructor's argument defines
  offlineDelayTime,        \* the constructor's offlineDelayTime argument
  parsedArg,               \* what parseOfflineArg makes of that argument
  requestHistoryStateKey,  \* this.requestHistoryStateKey
  offline,     \* this.offline
  state,       \* the Redux state: state[StoreKey] is the requests reducer's
  now,         \* the wall clock
  calls,       \* the thunk invocations so far, in order of invocation
  microtasks   \* the promise reactions waiting to run, in order

\* What construction fixes.
config ==
  <<actions, finders, offlineDelayTime, parsedArg, requestHistoryStateKey, offline>>

vars == <<config, state, now, calls, microtasks>>

\* The key the requests reducer is mounted under (combineReducers): the
\* key the handler is told the request history is stored under.
StoreKey == requestHistoryStateKey

\* ------------------------------------------------------- Immutable.Map
EmptyMap == [k \in {} |-> JSUndefined]
MapSet(m, k, v) == [x \in DOMAIN m \cup {k} |-> IF x = k THEN v ELSE m[x]]
MapDelete(m, k) == [x \in DOMAIN m \ {k} |-> m[x]]
MapGetOr(m, k, d) == IF k \in DOMAIN m THEN m[k] ELSE d

\* Map.getIn([a, b, c]): undefined as soon as a key is missing.
GetIn(m, a, b, c) ==
  IF a \in DOMAIN m /\ b \in DOMAIN m[a] /\ c \in DOMAIN m[a][b]
  THEN m[a][b][c]
  ELSE JSUndefined

\* Map.setIn([a, b, c], v): the maps on the way are created when missing.
SetIn(m, a, b, c, v) ==
  LET ma == MapGetOr(m, a, EmptyMap)
      mb == MapGetOr(ma, b, EmptyMap)
  IN MapSet(m, a, MapSet(ma, b, MapSet(mb, c, v)))

\* ------------------------------------------------------------- actions.js
\* `RECORD_${type}`
RecordType(type) ==
  CASE type = "REQUEST" -> "RECORD_REQUEST"
    [] type = "SUCCESS" -> "RECORD_SUCCESS"
    [] type = "FAILURE" -> "RECORD_FAILURE"

\* record(type)(url, method = 'GET', time = new Date().toISOString(),
\* clearHistory = true), called with (url, method) at clock value t.
record(type, url, method, t) ==
  [type |-> RecordType(type),
   url |-> url,
   method |-> IF method = Undefined THEN "GET" ELSE method,
   time |-> ISOString(t),
   clearHistory |-> TRUE]

recordRequest(url, method, t) == record("REQUEST", url, method, t)

\* The success recorded with the request's type.
recordSuccessAsRequest(url, method, t) == record("REQUEST", url, method, t)

recordSuccess(url, method, t) == record("SUCCESS", url, method, t)

recordFailure(url, method, t) == record("FAILURE", url, method, t)

\* The three action creators of the copy in RequestHandler.js.
recordRequestCopy(url, method, t) == record("REQUEST", url, method, t)
recordSuccessCopy(url, method, t) == record("REQUEST", url, method, t)
recordFailureCopy(url, method, t) == record("REQUEST", url, method, t)

\* this.record(path).request(), .success() and .failure() at clock value t.
record_request(path, t) ==
  IF actions = ActionsFile THEN recordRequest(path.path, path.method, t)
  ELSE recordRequestCopy(path.path, path.method, t)
record_success(path, t) ==
  IF actions = ActionsFile THEN recordSuccess(path.path, path.method, t)
  ELSE recordSuccessCopy(path.path, path.method, t)
record_failure(path, t) ==
  IF actions = ActionsFile THEN recordFailure(path.path, path.method, t)
  ELSE recordFailureCopy(path.path, path.method, t)

\* ----------------------------------------------------------- the reducer
RecordTypes == {RecordType(t) : t \in {"REQUEST", "SUCCESS", "FAILURE"}}

\* action.type.split('_')[1]
SplitEvent(type) ==
  CASE type = "RECORD_REQUEST" -> "REQUEST"
    [] type = "RECORD_SUCCESS" -> "SUCCESS"
    [] type = "RECORD_FAILURE" -> "FAILURE"

requestsReducer(st, action) ==
  IF action.type \notin RecordTypes
  THEN st
  ELSE LET event == SplitEvent(action.type)
           newState == IF event # "REQUEST" /\ action.clearHistory
                       THEN MapDelete(st, action.url)
                       ELSE st
       IN SetIn(newState, action.url, action.method, event, action.time)

\* The store: dispatch(action) runs the reducer mounted under StoreKey and
\* replaces the state before it returns.
Dispatch(s, action) == [s EXCEPT ![StoreKey] = requestsReducer(@, action)]

\* ---------------------------------------------------------------- finders
ToUpperCase(type) ==
  CASE type = "request" -> "REQUEST"
    [] type = "success" -> "SUCCESS"
    [] type = "failure" -> "FAILURE"

findDefault(type, requestHistory, requestOptions) ==
  GetIn(requestHistory, requestOptions.path, requestOptions.method,
        ToUpperCase(type))

\* A request finder that finds nothing.
findRequestMissing(requestHistory, requestOptions) == JSUndefined

\* _defineFinders(finders) with finders = {}: the three defaults.
findRequest(requestHistory, requestOptions) ==
  findDefault("request", requestHistory, requestOptions)

\* A success finder that finds nothing.
findSuccessMissing(requestHistory, requestOptions) == JSUndefined

findSuccess(requestHistory, requestOptions) ==
  findDefault("success", requestHistory, requestOptions)

findFailure(requestHistory, requestOptions) ==
  findDefault("failure", requestHistory, requestOptions)

\* The functions a finders argument supplies: its findSuccess tells whether
\* any method of the path has succeeded, its findRequest and findFailure
\* find nothing.
SuppliedFinder(which, requestHistory, requestOptions) ==
  IF which = "findSuccess"
  THEN JSBool(/\ requestOptions.path \in DOMAIN requestHistory
              /\ \E method \in DOMAIN requestHistory[requestOptions.path] :
                   "SUCCESS" \in DOMAIN requestHistory[requestOptions.path][method])
  ELSE JSUndefined

\* findDefault('request'), findDefault('success'), findDefault('failure').
DefaultFinder(which, requestHistory, requestOptions) ==
  CASE which = "findRequest" -> findRequest(requestHistory, requestOptions)
    [] which = "findSuccess" -> findSuccess(requestHistory, requestOptions)
    [] which = "findFailure" -> findFailure(requestHistory, requestOptions)

\* The supplied finders taken only when all three are supplied.
_defineFindersWholesale(which, requestHistory, requestOptions) ==
  IF finders = FinderNames
  THEN SuppliedFinder(which, requestHistory, requestOptions)
  ELSE DefaultFinder(which, requestHistory, requestOptions)

\* The member `which` of this.finders = _defineFinders(finders), applied:
\* finders[which] || findDefault(type).
_defineFinders(which, requestHistory, requestOptions) ==
  IF which \in finders
  THEN SuppliedFinder(which, requestHistory, requestOptions)
  ELSE DefaultFinder(which, requestHistory, requestOptions)

\* A tracker that looks the path up and not the method.
TrackerAnyPath(requestHistory, requestOptions) ==
  requestOptions.path \in DOMAIN requestHistory

\* _generateTracker(requestHistory)(requestOptions).any()
TrackerAny(requestHistory, requestOptions) ==
  \E which \in FinderNames :
    Truthy(_defineFinders(which, requestHistory, requestOptions))

\* ------------------------------------------------------ offline setting
_parseOfflineValue(value) ==
  IF value = JSStr("false") THEN JSBool(FALSE)
  ELSE IF value = JSStr("true") THEN JSNum(0)
  ELSE IF value.t = "string" THEN NumberOfString(value.s)
  ELSE IF value = JSBool(TRUE) THEN JSNum(0)
  ELSE value

\* The body of parseOfflineArg, as a function of the `value` it reads.
parseOfflineArgBody(value) ==
  IF value = JSStr("true") THEN JSNum(0)
  ELSE IF value = JSBool(TRUE) THEN JSNum(0)
  ELSE IF value.t = "string"
       THEN LET number == NumberOfString(value.s)
            IN IF number.s = "NaN" THEN JSBool(FALSE) ELSE number
       ELSE JSBool(FALSE)

\* parseOfflineArg(arg): the only binding its body can see is the parameter
\* `arg`; the body reads `value`, which is bound nowhere, so evaluating its
\* first condition throws.
parseOfflineArg(arg) ==
  LET scope == [arg |-> arg]
  IN IF "value" \in DOMAIN scope
     THEN parseOfflineArgBody(scope["value"])
     ELSE ReferenceError("value")

\* Offline when the setting is truthy: a delay of 0 counts as online.
_isOfflineTruthy == Truthy(offline)

\* typeof this.offline === 'number'
_isOffline == offline.t = "number"

\* The delay setTimeout(cb, this.offline) waits: NaN and negative numbers
\* count as 0.
TimerDelay == IF offline.s = "NaN" \/ offline.n < 0 THEN 0 ELSE offline.n

\* --------------------------------------------------------- observations
\* One observable step of a call, in the order the code performs them: a
\* dispatched tracking action (e is its type), the transport invoked with
\* the routing object ("request"), the transport's promise settling
\* ("fulfilled", "rejected"), setTimeout, the timer's callback ("timeout"),
\* offlineResponse, onSuccess, onFailure, console.error, an exception
\* leaving a callback ("throw"), resolve and reject of the promise the thunk
\* returned.
Ev(e, url, method, time, v) ==
  [e |-> e, url |-> url, method |-> method, time |-> time, v |-> v]
Dispatched(action) == Ev(action.type, action.url, action.method, action.time, NoVal)
Did(e, v) == Ev(e, "", "", JSUndefined, v)

\* The method a routing object stands for: GET when it names none.
MethodOf(pathObj) == IF pathObj.method = Undefined THEN "GET" ELSE pathObj.method

\* The events history h holds a timestamp of for the routing object's
\* (path, method).
HistoryOf(h, pathObj) ==
  IF pathObj.path \in DOMAIN h /\ MethodOf(pathObj) \in DOMAIN h[pathObj.path]
  THEN DOMAIN h[pathObj.path][MethodOf(pathObj)]
  ELSE {}

\* Whether a call for the routing object's (path, method) has recorded its
\* request and has not reached its end.
Busy(pathObj) ==
  \E i \in 1..Len(calls) :
    /\ calls[i].pc # "done"
    /\ apis[calls[i].name].path.path = pathObj.path
    /\ MethodOf(apis[calls[i].name].path) = MethodOf(pathObj)

Pending == [st |-> "pending", v |-> NoVal]

\* A thunk invocation: which thunk, the api name, where it stands (pc), the
\* promise it returned (outer), what it did so far (trace), when its timer is
\* due, and what held of its (path, method) when it was invoked: the events
\* the history held (hist0) and whether a call for it was under way (busy0).
Call(kind, name, pc, outer, trace, due) ==
  [kind |-> kind, name |-> name, pc |-> pc, outer |-> outer, trace |-> trace,
   due |-> due,
   hist0 |-> IF name \in DOMAIN apis
             THEN HistoryOf(state[StoreKey], apis[name].path) ELSE {},
   busy0 |-> IF name \in DOMAIN apis THEN Busy(apis[name].path) ELSE FALSE]

Job(i, job, v) == [call |-> i, job |-> job, v |-> v]

\* ----------------------------------------------------------- the handler
\* _getAPI(name) finds an api function.
HasAPI(name) == name \in DOMAIN apis

NoApiError(name) == Val("No api object found with name: ", name)

\* The error with no api name in it.
NoOfflineErrorUnnamed(name) == Val("No offline function defined for API ", Undefined)

\* new Error(`No offline function defined for API ${api.name}:`)
NoOfflineError(name) == Val("No offline function defined for API ", name)

\* offlineFunc(getState): the canned response of the api.
OfflineResponseOf(name) == Val("offlineResponse", name)

\* The request started before it is recorded.
StartOrderEager(requested, started) == started \o <<Dispatched(requested)>>

\* dispatch(record.request()) comes first, then the promise's executor calls
\* makeRequest(pathObj), which does what `started` lists.
StartOrder(requested, started) == <<Dispatched(requested)>> \o started

\* _handleRequest(api, dispatch, getState) up to the point where it returns
\* the promise.
_handleRequest(kind, name) ==
  LET api == apis[name]
      pathObj == api.path
      i == Len(calls) + 1
      requested == record_request(pathObj, now)
  IN /\ state' = Dispatch(state, requested)
     /\ IF _isOffline
        THEN IF ~api.offlineResponse
             THEN \* the executor throws: makeRequest's promise is rejected
                  /\ calls' = Append(calls,
                       Call(kind, name, "queued", Pending,
                            StartOrder(requested, <<>>), 0))
                  /\ microtasks' = Append(microtasks, Job(i, "catch", NoOfflineError(name)))
             ELSE /\ calls' = Append(calls,
                       Call(kind, name, "timer", Pending,
                            StartOrder(requested, <<Did("setTimeout", NoVal)>>),
                            now + TimerDelay))
                  /\ UNCHANGED microtasks
        ELSE /\ calls' = Append(calls,
                  Call(kind, name, "inflight", Pending,
                       StartOrder(requested,
                         <<Ev("request", pathObj.path, pathObj.method, JSUndefined, NoVal)>>),
                       0))
             /\ UNCHANGED microtasks
     /\ UNCHANGED <<config, now>>

\* The request recorded before the api is looked up.
ThunkThrowsRecorded(kind, name) ==
  LET requested == recordRequest(name, Undefined, now)
  IN /\ state' = Dispatch(state, requested)
     /\ calls' = Append(calls,
          Call(kind, name, "done", [st |-> "threw", v |-> NoApiError(name)],
               <<Dispatched(requested)>>, 0))
     /\ UNCHANGED <<config, now, microtasks>>

\* _getAPI throws: the thunk throws and nothing else happens.
ThunkThrows(kind, name) ==
  /\ calls' = Append(calls,
       Call(kind, name, "done", [st |-> "threw", v |-> NoApiError(name)], <<>>, 0))
  /\ UNCHANGED <<config, state, now, microtasks>>

\* The body of the thunk req(apiName) returns, invoked as `kind`.
ReqThunk(kind, name) ==
  IF ~HasAPI(name) THEN ThunkThrows(kind, name) ELSE _handleRequest(kind, name)

\* Reading a property of undefined.
TypeError(property) == Val("TypeError: Cannot read property of undefined", property)

\* The body of the thunk reqOnce(apiName) returns: the tracker is made of
\* getState().requests, whose getIn the finders call.
ReqOnceThunk(name) ==
  IF ~HasAPI(name)
  THEN ThunkThrows("reqOnce", name)
  ELSE IF "requests" \notin DOMAIN state
       THEN /\ calls' = Append(calls,
                 Call("reqOnce", name, "done",
                      [st |-> "threw", v |-> TypeError("getIn")], <<>>, 0))
            /\ UNCHANGED <<config, state, now, microtasks>>
       ELSE IF TrackerAny(state.requests, apis[name].path)
            THEN /\ calls' = Append(calls,
                      Call("reqOnce", name, "done",
                           [st |-> "resolved", v |-> EmptyResult], <<>>, 0))
                 /\ UNCHANGED <<config, state, now, microtasks>>
            ELSE _handleRequest("reqOnce", name)

\* Events of the outside world, thunk invocations among them, are handled
\* when no promise reaction waits.
Idle == microtasks = <<>>

\* dispatch(req(apiName))
req(name) == Idle /\ ReqThunk("req", name)

\* dispatch(reqOnce(apiName))
reqOnce(name) == Idle /\ ReqOnceThunk(name)

\* ------------------------------------------------- the transport, the timer
\* The promise the transport returned is fulfilled with r: the reaction
\* registered by .then is queued.
TransportFulfils(i, r) ==
  /\ Idle
  /\ calls[i].pc = "inflight"
  /\ calls' = [calls EXCEPT ![i].pc = "queued",
                            ![i].trace = Append(@, Did("fulfilled", r))]
  /\ microtasks' = Append(microtasks, Job(i, "then", r))
  /\ UNCHANGED <<config, state, now>>

\* The promise the transport returned is rejected with err: .then passes the
\* rejection on and the reaction registered by .catch is queued.
TransportRejects(i, err) ==
  /\ Idle
  /\ calls[i].pc = "inflight"
  /\ calls' = [calls EXCEPT ![i].pc = "queued",
                            ![i].trace = Append(@, Did("rejected", err))]
  /\ microtasks' = Append(microtasks, Job(i, "catch", err))
  /\ UNCHANGED <<config, state, now>>

\* A timer that may fire at once, whatever its delay.
TimerDueAtOnce(due) == TRUE

\* A timer set for time due fires no earlier than that.
TimerDue(due) == now >= due

\* The setTimeout callback: offlineFunc(getState), then resolve(response).
TimerFires(i) ==
  /\ Idle
  /\ calls[i].pc = "timer"
  /\ TimerDue(calls[i].due)
  /\ LET response == OfflineResponseOf(calls[i].name)
     IN /\ calls' = [calls EXCEPT
              ![i].pc = "queued",
              ![i].trace = @ \o <<Did("timeout", NoVal), Did("offlineResponse", response)>>]
        /\ microtasks' = Append(microtasks, Job(i, "then", response))
  /\ UNCHANGED <<config, state, now>>

\* Time passes while the event loop waits for a timer. Nothing else the
\* handler does depends on how much time has passed.
Tick ==
  /\ Idle
  /\ \E i \in 1..Len(calls) : calls[i].pc = "timer" /\ now < calls[i].due
  /\ now' = now + 1
  /\ UNCHANGED <<config, state, calls, microtasks>>

\* ------------------------------------------------------ promise reactions
\* .then(response => { dispatch(record.success()); api.onSuccess &&
\* api.onSuccess(response, dispatch); resolve(response); }); onSuccess
\* returns or throws (throws = TRUE), and what it throws rejects the promise
\* .then returned, so that the .catch reaction is queued.
ThenReaction(i, response, throws) ==
  LET api == apis[calls[i].name]
      pathObj == api.path
      succeeded == record_success(pathObj, now)
      t1 == calls[i].trace \o <<Dispatched(succeeded)>>
      t2 == IF api.onSuccess THEN t1 \o <<Did("onSuccess", response)>> ELSE t1
  IN /\ state' = Dispatch(state, succeeded)
     /\ IF api.onSuccess /\ throws
        THEN /\ calls' = [calls EXCEPT
                   ![i].trace = t2 \o <<Did("throw", OnSuccessException)>>]
             /\ microtasks' = Append(Tail(microtasks), Job(i, "catch", OnSuccessException))
        ELSE /\ calls' = [calls EXCEPT
                   ![i].pc = "done",
                   ![i].outer = [st |-> "resolved", v |-> response],
                   ![i].trace = t2 \o <<Did("resolve", response)>>]
             /\ microtasks' = Tail(microtasks)

\* .catch(err => { dispatch(record.failure()); if (api.onFailure)
\* api.onFailure(err, dispatch); else console.error(err); reject(err); });
\* when onFailure throws, reject(err) is not reached.
CatchReaction(i, err, throws) ==
  LET api == apis[calls[i].name]
      pathObj == api.path
      failed == record_failure(pathObj, now)
      t1 == calls[i].trace \o <<Dispatched(failed)>>
      t2 == t1 \o <<IF api.onFailure THEN Did("onFailure", err)
                                     ELSE Did("console.error", err)>>
  IN /\ state' = Dispatch(state, failed)
     /\ IF api.onFailure /\ throws
        THEN calls' = [calls EXCEPT
                 ![i].pc = "done",
                 ![i].trace = t2 \o <<Did("throw", OnFailureException)>>]
        ELSE calls' = [calls EXCEPT
                 ![i].pc = "done",
                 ![i].outer = [st |-> "rejected", v |-> err],
                 ![i].trace = t2 \o <<Did("reject", err)>>]
     /\ microtasks' = Tail(microtasks)

\* The event loop runs the oldest waiting reaction.
RunThen ==
  /\ microtasks # <<>>
  /\ Head(microtasks).job = "then"
  /\ \E throws \in BOOLEAN :
       ThenReaction(Head(microtasks).call, Head(microtasks).v, throws)
  /\ UNCHANGED <<config, now>>

RunCatch ==
  /\ microtasks # <<>>
  /\ Head(microtasks).job = "catch"
  /\ \E throws \in BOOLEAN :
       CatchReaction(Head(microtasks).call, Head(microtasks).v, throws)
  /\ UNCHANGED <<config, now>>

\* ------------------------------------------------------ the specification
\* What the constructor, and parseOfflineArg, make of the arguments.
Constructed ==
  /\ offline = _parseOfflineValue(IF offlineDelayTime = JSUndefined
                                  THEN JSBool(FALSE) ELSE offlineDelayTime)
  /\ parsedArg = parseOfflineArg(offlineDelayTime)

\* new RequestHandler(apis, requestFunction, offlineDelayTime) over a store
\* whose requests reducer starts from fromJS({}).
Init ==
  /\ actions = ActionsFile
  /\ finders = {}
  /\ offlineDelayTime \in OfflineArgs
  /\ requestHistoryStateKey = DefaultStateKey
  /\ Constructed
  /\ state = [k \in {StoreKey} |-> EmptyMap]
  /\ now = 0
  /\ calls = <<>>
  /\ microtasks = <<>>

InvokeReq == Len(calls) < MaxCalls /\ \E name \in ApiNames : req(name)

InvokeReqOnce == Len(calls) < MaxCalls /\ \E name \in ApiNames : reqOnce(name)

Fulfil == \E i \in 1..Len(calls) : \E r \in Responses : TransportFulfils(i, r)

Reject == \E i \in 1..Len(calls) : \E err \in TransportErrors : TransportRejects(i, err)

Timeout == \E i \in 1..Len(calls) : TimerFires(i)

Next ==
  \/ InvokeReq
  \/ InvokeReqOnce
  \/ Fulfil
  \/ Reject
  \/ Timeout
  \/ RunThen
  \/ RunCatch
  \/ Tick

Spec == Init /\ [][Next]_vars

\* The handler constructed with any kind of offlineDelayTime argument and
\* either state key; MaxConfigCalls thunks are invoked.
MaxConfigCalls == 2

InitConfig ==
  /\ actions = ActionsFile
  /\ finders = {}
  /\ offlineDelayTime \in RawOfflineArgs
  /\ requestHistoryStateKey \in StateKeys
  /\ Constructed
  /\ state = [k \in {StoreKey} |-> EmptyMap]
  /\ now = 0
  /\ calls = <<>>
  /\ microtasks = <<>>

InvokeReqConfig == Len(calls) < MaxConfigCalls /\ \E name \in ApiNames : req(name)

InvokeReqOnceConfig == Len(calls) < MaxConfigCalls /\ \E name \in ApiNames : reqOnce(name)

NextConfig ==
  \/ InvokeReqConfig
  \/ InvokeReqOnceConfig
  \/ Fulfil
  \/ Reject
  \/ Timeout
  \/ RunThen
  \/ RunCatch
  \/ Tick

SpecConfig == InitConfig /\ [][NextConfig]_vars

\* The handler constructed with either set of the repository's default
\* actions.
InitActions ==
  /\ actions \in ActionSets
  /\ finders = {}
  /\ offlineDelayTime \in OfflineArgs
  /\ requestHistoryStateKey = DefaultStateKey
  /\ Constructed
  /\ state = [k \in {StoreKey} |-> EmptyMap]
  /\ now = 0
  /\ calls = <<>>
  /\ microtasks = <<>>

SpecActions == InitActions /\ [][Next]_vars

\* The same handler used for one path only: every thunk is for an api whose
\* routing object has the path of getA.
PathNames == {name \in DOMAIN apis : apis[name].path.path = apis.getA.path.path}

InvokeReqPath == Len(calls) < MaxPathCalls /\ \E name \in PathNames : req(name)

InvokeReqOncePath == Len(calls) < MaxPathCalls /\ \E name \in PathNames : reqOnce(name)

NextPath ==
  \/ InvokeReqPath
  \/ InvokeReqOncePath
  \/ Fulfil
  \/ Reject
  \/ Timeout
  \/ RunThen
  \/ RunCatch
  \/ Tick

SpecPath == Init /\ [][NextPath]_vars

\* The handler constructed with a finders argument that supplies any subset
\* of the three finders, used for the apis of one path; MaxFinderCalls thunks
\* are invoked.
MaxFinderCalls == 2

InitFinders ==
  /\ actions = ActionsFile
  /\ finders \in SUBSET FinderNames
  /\ offlineDelayTime \in OfflineArgs
  /\ requestHistoryStateKey = DefaultStateKey
  /\ Constructed
  /\ state = [k \in {StoreKey} |-> EmptyMap]
  /\ now = 0
  /\ calls = <<>>
  /\ microtasks = <<>>

InvokeReqFinders == Len(calls) < MaxFinderCalls /\ \E name \in PathNames : req(name)

InvokeReqOnceFinders == Len(calls) < MaxFinderCalls /\ \E name \in PathNames : reqOnce(name)

NextFinders ==
  \/ InvokeReqFinders
  \/ InvokeReqOnceFinders
  \/ Fulfil
  \/ Reject
  \/ Timeout
  \/ RunThen
  \/ RunCatch
  \/ Tick

SpecFinders == InitFinders /\ [][NextFinders]_vars

\* ================================================================ claims
\* Reading a call's trace.
Positions(tr, e) == {k \in 1..Len(tr) : tr[k].e = e}
Count(tr, e) == Cardinality(Positions(tr, e))
Has(tr, e) == Positions(tr, e) # {}
\* Every e1 of the trace comes before every e2 of it.
AllBefore(tr, e1, e2) ==
  \A k1 \in Positions(tr, e1) : \A k2 \in Positions(tr, e2) : k1 < k2
Registered(i) == HasAPI(calls[i].name)
PathOf(i) == apis[calls[i].name].path
CallIds == 1..Len(calls)

\* C1: every req thunk invoked with a registered api name emits exactly one
\* REQUESTED event, for the call's (path, method), and emits it before the
\* transport is invoked or the offline stub's timer is set, and before any
\* SUCCEEDED or FAILED event of the call.
C1_RequestedFirst ==
  \A i \in CallIds :
    (calls[i].kind = "req" /\ Registered(i)) =>
      LET tr == calls[i].trace
      IN /\ Count(tr, "RECORD_REQUEST") = 1
         /\ \A k \in Positions(tr, "RECORD_REQUEST") :
              /\ tr[k].url = PathOf(i).path
              /\ tr[k].method = MethodOf(PathOf(i))
         /\ \A e \in {"request", "setTimeout", "timeout", "offlineResponse",
                      "RECORD_SUCCESS", "RECORD_FAILURE"} :
              AllBefore(tr, "RECORD_REQUEST", e)

C1_Witness ==
  \E i \in CallIds :
    /\ calls[i].kind = "req"
    /\ Registered(i)
    /\ Has(calls[i].trace, "request")
    /\ Has(calls[i].trace, "RECORD_SUCCESS")
    /\ calls[i].pc = "done"

\* What a trace did, without the places and times: <<e, v>> of each step.
Shape(tr) == [k \in 1..Len(tr) |-> <<tr[k].e, tr[k].v>>]
Step(e, v) == <<<<e, v>>>>
\* The steps of tr after position k.
After(tr, k) == SubSeq(tr, k + 1, Len(tr))

\* C2: when the transport rejects with E, the call emits exactly one FAILED
\* event and no SUCCEEDED event, invokes onFailure exactly once with E when
\* the api defines it and logs E otherwise, and the promise the thunk
\* returned is rejected with E.
C2_TransportRejection ==
  \A i \in CallIds :
    LET tr == calls[i].trace
    IN \A k \in Positions(tr, "rejected") :
         /\ Count(tr, "RECORD_SUCCESS") = 0
         /\ calls[i].pc = "done" =>
              /\ Count(tr, "RECORD_FAILURE") = 1
              /\ IF apis[calls[i].name].onFailure
                 THEN /\ Count(tr, "onFailure") = 1
                      /\ \A j \in Positions(tr, "onFailure") : tr[j].v = tr[k].v
                 ELSE /\ Count(tr, "console.error") = 1
                      /\ \A j \in Positions(tr, "console.error") : tr[j].v = tr[k].v
              /\ calls[i].outer = [st |-> "rejected", v |-> tr[k].v]

\* C3: when the transport fulfils with R and onSuccess does not throw, the
\* call emits exactly one SUCCEEDED event and no FAILED event, then invokes
\* onSuccess once with R when the api defines it, then resolves the promise
\* the thunk returned with R, in this order.
C3_TransportFulfilment ==
  \A i \in CallIds :
    LET tr == calls[i].trace
    IN \A k \in Positions(tr, "fulfilled") :
         ~Has(tr, "throw") =>
           /\ Count(tr, "RECORD_FAILURE") = 0
           /\ IF calls[i].pc = "done"
              THEN /\ Shape(After(tr, k)) =
                        Step("RECORD_SUCCESS", NoVal)
                        \o (IF apis[calls[i].name].onSuccess
                            THEN Step("onSuccess", tr[k].v) ELSE <<>>)
                        \o Step("resolve", tr[k].v)
                   /\ tr[k + 1].url = PathOf(i).path
                   /\ tr[k + 1].method = MethodOf(PathOf(i))
                   /\ calls[i].outer = [st |-> "resolved", v |-> tr[k].v]
              ELSE /\ After(tr, k) = <<>>
                   /\ calls[i].outer = Pending

C3_Witness ==
  \E i \in CallIds :
    /\ Registered(i)
    /\ apis[calls[i].name].onSuccess
    /\ Has(calls[i].trace, "fulfilled")
    /\ ~Has(calls[i].trace, "throw")
    /\ calls[i].outer.st = "resolved"

\* The whole of an offline call that is served its stub and whose onSuccess
\* does not throw.
OfflineSteps(name) ==
  Step("RECORD_REQUEST", NoVal) \o Step("setTimeout", NoVal)
  \o Step("timeout", NoVal) \o Step("offlineResponse", OfflineResponseOf(name))
  \o Step("RECORD_SUCCESS", NoVal)
  \o (IF apis[name].onSuccess
      THEN Step("onSuccess", OfflineResponseOf(name)) ELSE <<>>)
  \o Step("resolve", OfflineResponseOf(name))

\* C4: an offline call whose api has an offlineResponse proceeds in the
\* order REQUESTED, timer set, timer fires, offlineResponse evaluated,
\* SUCCEEDED, onSuccess, promise resolved with the stub response; SUCCEEDED,
\* onSuccess and the resolution never come before the timer has fired, and
\* SUCCEEDED is stamped no less than the delay after REQUESTED.
C4_OfflineOrder ==
  \A i \in CallIds :
    LET tr == calls[i].trace
        all == OfflineSteps(calls[i].name)
    IN Has(tr, "setTimeout") =>
         /\ \A k \in 1..Len(tr) :
              (\A j \in Positions(tr, "throw") : k < j) =>
                k <= Len(all) /\ Shape(tr)[k] = all[k]
         /\ \A e \in {"RECORD_SUCCESS", "onSuccess", "resolve", "offlineResponse"} :
              Has(tr, e) => Has(tr, "timeout") /\ AllBefore(tr, "timeout", e)
         /\ \A kr \in Positions(tr, "RECORD_REQUEST") :
              \A ks \in Positions(tr, "RECORD_SUCCESS") :
                tr[ks].time.n - tr[kr].time.n >= TimerDelay
         /\ (calls[i].pc = "done" /\ ~Has(tr, "throw")) =>
              /\ Shape(tr) = all
              /\ calls[i].outer = [st |-> "resolved", v |-> OfflineResponseOf(calls[i].name)]
         /\ calls[i].outer.st = "resolved" => Has(tr, "timeout")

C4_Witness ==
  \E i \in CallIds :
    /\ TimerDelay >= 1
    /\ Registered(i)
    /\ apis[calls[i].name].onSuccess
    /\ Has(calls[i].trace, "offlineResponse")
    /\ calls[i].outer = [st |-> "resolved", v |-> OfflineResponseOf(calls[i].name)]

Input(tr) == SelectSeq(Shape(tr), LAMBDA x : x[1] \in {"fulfilled", "rejected", "throw"})

\* C6: for a (path, method) with no tracking history, reqOnce behaves as req
\* does: invoked in the same state, the reqOnce thunk does what the req thunk
\* does, step for step; and a reqOnce call and a req call for the same api
\* that met the same transport outcome and the same callback behaviour
\* emitted the same events, made the same callback invocations and settled
\* their promises the same way with the same value.
C6_OnceAsReq ==
  /\ [][\A name \in DOMAIN apis :
          (HistoryOf(state[StoreKey], apis[name].path) = {} /\ reqOnce(name))
            => ReqThunk("reqOnce", name)]_vars
  /\ [](\A i \in CallIds : \A j \in CallIds :
          ( /\ calls[i].kind = "req" /\ calls[j].kind = "reqOnce"
            /\ calls[i].name = calls[j].name
            /\ Registered(j) /\ calls[j].hist0 = {}
            /\ calls[i].pc = "done" /\ calls[j].pc = "done"
            /\ Input(calls[i].trace) = Input(calls[j].trace) ) =>
              /\ Shape(calls[i].trace) = Shape(calls[j].trace)
              /\ calls[i].outer = calls[j].outer)

C6_Witness ==
  \E i \in CallIds : \E j \in CallIds :
    /\ calls[i].kind = "req" /\ calls[j].kind = "reqOnce"
    /\ calls[i].name = calls[j].name
    /\ Registered(j) /\ calls[j].hist0 = {}
    /\ PathOf(j).method # Undefined
    /\ Has(calls[i].trace, "fulfilled") /\ Has(calls[j].trace, "fulfilled")
    /\ calls[i].outer.st = "resolved"
    /\ calls[j].outer = calls[i].outer

\* Every call so far is a reqOnce for one and the same api, whose routing
\* object names its method.
OnlyOnce ==
  \A i \in CallIds :
    /\ calls[i].kind = "reqOnce"
    /\ calls[i].name = calls[1].name
    /\ Registered(i)
    /\ PathOf(i).method # Undefined

\* The calls that invoked the transport.
TransportCalls == {i \in CallIds : Has(calls[i].trace, "request")}

C8_BusyBlocksOnce ==
  \A i \in CallIds :
    ( /\ calls[i].kind = "reqOnce"
      /\ Registered(i)
      /\ PathOf(i).method # Undefined
      /\ calls[i].busy0 ) =>
        /\ calls[i].outer = [st |-> "resolved", v |-> EmptyResult]
        /\ calls[i].trace = <<>>

\* C9: after a reqOnce whose request failed (FAILED recorded for the key), a
\* later reqOnce for the same (path, method) makes the request again.
C9_OnceRetriesAfterFailure ==
  \A i \in CallIds :
    ( /\ calls[i].kind = "reqOnce"
      /\ Registered(i)
      /\ "FAILURE" \in calls[i].hist0 ) =>
        Has(calls[i].trace, "RECORD_REQUEST")

\* C10: a req or reqOnce thunk invoked with an api name that is not
\* registered throws at once an error naming that api, emits no tracking
\* event, starts neither the transport nor the offline stub, and leaves the
\* tracking store as it was.
C10_UnknownApi ==
  [][\A i \in 1..Len(calls') :
       ~HasAPI(calls'[i].name) =>
         /\ calls'[i].pc = "done"
         /\ calls'[i].outer = [st |-> "threw", v |-> NoApiError(calls'[i].name)]
         /\ calls'[i].trace = <<>>
         /\ i > Len(calls) => state' = state /\ microtasks' = microtasks]_vars

C10_Witness ==
  \E i \in CallIds : \E j \in CallIds :
    /\ i < j
    /\ Registered(i) /\ calls[i].pc = "inflight"
    /\ calls[j].kind = "reqOnce" /\ ~Registered(j)
    /\ calls[j].outer.st = "threw"

\* The calls that went to _handleRequest offline for an api without an
\* offlineResponse.
StublessOfflineCalls ==
  {i \in CallIds : /\ Registered(i)
                   /\ _isOffline
                   /\ ~apis[calls[i].name].offlineResponse
                   /\ calls[i].trace # <<>>}

\* C11: an offline dispatch of an api without an offlineResponse fails with
\* an error that names the api: its REQUESTED event is emitted first, no
\* SUCCEEDED event is emitted, onSuccess is not invoked, no stub is served
\* and no transport invoked, the error is what the failure handling gets, and
\* the promise the thunk returned is never resolved: it is rejected with
\* that error.
C11_NoOfflineResponse ==
  \A i \in StublessOfflineCalls :
    LET tr == calls[i].trace
        err == Val("No offline function defined for API ", calls[i].name)
    IN /\ tr[1].e = "RECORD_REQUEST"
       /\ \A e \in {"RECORD_SUCCESS", "onSuccess", "resolve", "request",
                    "setTimeout", "offlineResponse"} : ~Has(tr, e)
       /\ \A k \in Positions(tr, "onFailure") \cup Positions(tr, "console.error") :
            tr[k].v = err
       /\ calls[i].outer.st # "resolved"
       /\ calls[i].outer.st = "rejected" => calls[i].outer.v = err
       /\ (calls[i].pc = "done" /\ ~Has(tr, "throw")) =>
            calls[i].outer = [st |-> "rejected", v |-> err]

C11_Witness ==
  \E i \in StublessOfflineCalls :
    /\ calls[i].pc = "done"
    /\ calls[i].outer = [st |-> "rejected", v |-> Val("No offline function defined for API ", "getB")]

\* A number that is neither NaN nor negative.
NonNegative(v) == v.t = "number" /\ v.s # "NaN" /\ v.n >= 0

\* C12: the normalization of the offline setting maps "true" and true to 0,
\* "false" and false to false, the numeric string "5" to 5 and the
\* non-numeric string "abc" to false; this is so of the handler's
\* _parseOfflineValue and of parseOfflineArg.
C12_NormalizeTable ==
  \A normalized \in {offline, parsedArg} :
    /\ offlineDelayTime \in {JSStr("true"), JSBool(TRUE)} => normalized = JSNum(0)
    /\ offlineDelayTime \in {JSStr("false"), JSBool(FALSE)} => normalized = JSBool(FALSE)
    /\ offlineDelayTime = JSStr("5") => normalized = JSNum(5)
    /\ offlineDelayTime = JSStr("abc") => normalized = JSBool(FALSE)

\* C13: the normalization returns an offline setting that is already a
\* non-negative number unchanged, so the handler made with it is offline
\* with that number as its delay; this is so of _parseOfflineValue and of
\* parseOfflineArg.
C13_NumberUnchanged ==
  NonNegative(offlineDelayTime) =>
    /\ parsedArg = offlineDelayTime
    /\ offline = offlineDelayTime
    /\ _isOffline
    /\ TimerDelay = offlineDelayTime.n

\* C14: whatever offlineDelayTime the handler is constructed with, the
\* offline setting it holds is false or a non-negative number: never NaN, a
\* negative number or a value of another type.
C14_SettingCanonical == offline = JSBool(FALSE) \/ NonNegative(offline)

\* The calls that went to _handleRequest: the dispatches.
Dispatches == {i \in CallIds : Registered(i) /\ calls[i].trace # <<>>}

\* C15: a handler whose offline setting is a number, 0 included, invokes
\* the transport in no dispatch and serves the api's offline stub: it sets
\* the timer once and, when the timer fires, calls offlineResponse once (an
\* api without an offlineResponse has no stub and fails as C11 says); a
\* handler whose offline setting is false calls no offlineResponse and sets
\* no timer, and invokes the transport exactly once in every dispatch, with
\* the api's routing object.
C15_OfflineBranch ==
  \A i \in Dispatches :
    LET tr == calls[i].trace
        api == apis[calls[i].name]
    IN /\ offline.t = "number" =>
            /\ \A e \in {"request", "fulfilled", "rejected"} : ~Has(tr, e)
            /\ api.offlineResponse =>
                 /\ Count(tr, "setTimeout") = 1
                 /\ Count(tr, "offlineResponse") = IF calls[i].pc = "timer" THEN 0 ELSE 1
                 /\ \A k \in Positions(tr, "offlineResponse") :
                      tr[k].v = OfflineResponseOf(calls[i].name)
       /\ offline = JSBool(FALSE) =>
            /\ \A e \in {"offlineResponse", "setTimeout", "timeout"} : ~Has(tr, e)
            /\ Count(tr, "request") = 1
            /\ \A k \in Positions(tr, "request") :
                 /\ tr[k].url = api.path.path
                 /\ tr[k].method = api.path.method

C15_Witness ==
  \E i \in Dispatches :
    /\ offline = JSNum(0)
    /\ Has(calls[i].trace, "offlineResponse")
    /\ calls[i].outer = [st |-> "resolved", v |-> OfflineResponseOf(calls[i].name)]

\* C16: a handler constructed with the request-history state key K makes the
\* decision of reqOnce from the history stored under K in the store's state
\* (under "requests" when K is the default): for an api that names its
\* method, reqOnce is suppressed when that history holds a timestamp for the
\* api's (path, method), and dispatches when it holds none.
C16_OnceReadsStateKey ==
  \A i \in CallIds :
    (calls[i].kind = "reqOnce" /\ Registered(i) /\ PathOf(i).method # Undefined) =>
      /\ calls[i].outer.st # "threw"
      /\ calls[i].hist0 # {} =>
           /\ calls[i].trace = <<>>
           /\ calls[i].outer = [st |-> "resolved", v |-> EmptyResult]
      /\ calls[i].hist0 = {} => calls[i].trace # <<>>

\* C17: every req invocation whose transport promise settled or whose delay
\* timer fired settles the promise it returned, exactly once, as resolved or
\* rejected, whatever onSuccess and onFailure do, throwing included: once
\* nothing of the call is left to run, that promise is not pending and
\* resolve or reject was called once.
C17_OuterSettles ==
  \A i \in CallIds :
    LET tr == calls[i].trace
    IN (/\ calls[i].kind = "req"
        /\ \E e \in {"fulfilled", "rejected", "timeout"} : Has(tr, e)
        /\ calls[i].pc = "done") =>
         /\ calls[i].outer.st \in {"resolved", "rejected"}
         /\ Count(tr, "resolve") + Count(tr, "reject") = 1

\* C18: an exception thrown by onSuccess is not caught by the handler: a
\* call whose transport fulfilled, or whose offline stub produced its
\* response, emits no FAILED event and invokes no onFailure, so a call emits
\* at most one of SUCCEEDED and FAILED.
C18_OnSuccessThrowUncaught ==
  \A i \in CallIds :
    LET tr == calls[i].trace
    IN (Has(tr, "fulfilled") \/ Has(tr, "offlineResponse")) =>
         /\ ~Has(tr, "RECORD_FAILURE")
         /\ ~Has(tr, "onFailure")
         /\ Count(tr, "RECORD_SUCCESS") + Count(tr, "RECORD_FAILURE") <= 1

\* The (path, method) keys history h has entries of, and the entries of one.
Keys(h) ==
  {key \in (DOMAIN h) \X {"GET", "POST", Undefined} : key[2] \in DOMAIN h[key[1]]}
Entries(h, key) == IF key \in Keys(h) THEN h[key[1]][key[2]] ELSE EmptyMap

\* The tracking actions the step dispatches: the records the step adds to
\* the calls' traces.
StepRecords ==
  LET added(i) == IF i <= Len(calls)
                  THEN After(calls'[i].trace, Len(calls[i].trace))
                  ELSE calls'[i].trace
  IN {rec \in UNION {{added(i)[k] : k \in 1..Len(added(i))} : i \in 1..Len(calls')} :
        rec.e \in RecordTypes}

\* C19: with the default reducer, recording an event for (path, method)
\* changes the entries of that key only: a REQUESTED event adds or
\* overwrites its own timestamp and removes nothing, a SUCCEEDED or FAILED
\* event (they clear history) leaves its own timestamp as the key's only
\* entry, the entries of every other path and of the other methods of the
\* same path stay as they were, and an action of an unrecognized type leaves
\* the whole history unchanged.
C19_ReducerFrame ==
  [][ /\ \A key \in Keys(state[StoreKey]) \cup Keys(state'[StoreKey]) :
           LET before == Entries(state[StoreKey], key)
               after == Entries(state'[StoreKey], key)
               own == {rec \in StepRecords : <<rec.url, rec.method>> = key}
           IN IF own = {}
              THEN after = before
              ELSE \A rec \in own :
                     after = IF rec.e = "RECORD_REQUEST"
                             THEN MapSet(before, "REQUEST", rec.time)
                             ELSE MapSet(EmptyMap, SplitEvent(rec.e), rec.time)
      /\ requestsReducer(state[StoreKey],
                         [type |-> "OTHER", url |-> "/a", method |-> "GET",
                          time |-> ISOString(now), clearHistory |-> TRUE])
           = state[StoreKey]
    ]_vars

\* C20: a routing object that names no method counts as GET both when its
\* events are recorded and when reqOnce looks its history up: its events
\* are recorded under GET, and once a REQUESTED event was emitted for it, a
\* reqOnce for the same routing object resolves with the empty result,
\* emits nothing and invokes no transport.
C20_MethodDefaultsToGet ==
  \A i \in CallIds :
    (Registered(i) /\ PathOf(i).method = Undefined) =>
      LET tr == calls[i].trace
      IN /\ \A k \in 1..Len(tr) : tr[k].e \in RecordTypes => tr[k].method = "GET"
         /\ (calls[i].kind = "reqOnce" /\ calls[i].hist0 # {}) =>
              /\ tr = <<>>
              /\ calls[i].outer = [st |-> "resolved", v |-> EmptyResult]

\* The event the handler emits in the step: REQUESTED when a thunk is
\* invoked, SUCCEEDED in the .then callback, FAILED in the .catch callback.
EmittedInStep ==
  IF microtasks = <<>> THEN "REQUEST"
  ELSE IF Head(microtasks).job = "then" THEN "SUCCESS" ELSE "FAILURE"

\* The default finder of an event.
FinderOf(event, requestHistory, requestOptions) ==
  CASE event = "REQUEST" -> findRequest(requestHistory, requestOptions)
    [] event = "SUCCESS" -> findSuccess(requestHistory, requestOptions)
    [] event = "FAILURE" -> findFailure(requestHistory, requestOptions)

\* C21: with the default actions, reducer and finders, emitting REQUESTED,
\* SUCCEEDED or FAILED for (path, method) at time t creates an action of
\* that event's own type, and once the store has applied it the finder of
\* that event returns t for (path, method), while the entries of the two
\* other events are not set by it: they stay as they were after REQUESTED
\* and are cleared after SUCCEEDED or FAILED.
C21_EventRoundTrip ==
  [][ \A rec \in StepRecords :
        LET event == EmittedInStep
            requestOptions == [path |-> rec.url, method |-> rec.method]
        IN /\ rec.e = RecordType(event)
           /\ FinderOf(event, state'[StoreKey], requestOptions) = rec.time
           /\ \A other \in {"REQUEST", "SUCCESS", "FAILURE"} \ {event} :
                GetIn(state'[StoreKey], rec.url, rec.method, other) =
                  IF event = "REQUEST"
                  THEN GetIn(state[StoreKey], rec.url, rec.method, other)
                  ELSE JSUndefined
    ]_vars

\* C22: each of the three finders can be overridden on its own: whatever
\* subset of findRequest, findSuccess and findFailure the constructor is
\* given, reqOnce applies the supplied function for each finder of the
\* subset and the default keyed lookup for each other one, and it is
\* suppressed (resolves with the empty result, emits nothing, leaves the
\* store alone) exactly when at least one of these three returns a truthy
\* value; otherwise it dispatches.
C22_FinderOverrides ==
  [][ (/\ Len(calls') = Len(calls) + 1
       /\ calls'[Len(calls')].kind = "reqOnce"
       /\ HasAPI(calls'[Len(calls')].name)) =>
        LET call == calls'[Len(calls')]
            requestHistory == state[StoreKey]
            requestOptions == apis[call.name].path
            inEffect(which) ==
              IF which \in finders
              THEN SuppliedFinder(which, requestHistory, requestOptions)
              ELSE GetIn(requestHistory, requestOptions.path, requestOptions.method,
                         CASE which = "findRequest" -> "REQUEST"
                           [] which = "findSuccess" -> "SUCCESS"
                           [] which = "findFailure" -> "FAILURE")
        IN IF \E which \in FinderNames : Truthy(inEffect(which))
           THEN /\ call.trace = <<>>
                /\ call.outer = [st |-> "resolved", v |-> EmptyResult]
                /\ state' = state
           ELSE /\ call.trace # <<>>
                /\ call.trace[1].e = "RECORD_REQUEST"
                /\ call.outer.st = "pending"
    ]_vars

\* A reqOnce suppressed by a supplied findSuccess alone, where the default
\* lookups of its (path, method) find nothing and the other two finders are
\* the defaults.
C22_Witness ==
  \E i \in CallIds :
    /\ finders = {"findSuccess"}
    /\ calls[i].kind = "reqOnce"
    /\ Registered(i)
    /\ calls[i].hist0 = {}
    /\ calls[i].trace = <<>>
    /\ calls[i].outer = [st |-> "resolved", v |-> EmptyResult]
====
